---- MODULE Spec2Model ----
(***************************************************************************)
(* Keys, bech32/hex key text formats, mnemonic derivation and event        *)
(* signing of nostr-rs-sdk, as a state machine over one Keys value, one    *)
(* text and one event at a time.                                           *)
(***************************************************************************)
EXTENDS Integers, Sequences, FiniteSets, TLC

(***************************************************************************)
(* Bounds of the model.                                                    *)
(***************************************************************************)
\* Length in bytes of a secret key and of an x-only public key.
KeyLen == 2

\* The scalars 0..MaxScalar are among the key bytes the model draws from.
MaxScalar == 2

\* A damaged text replaces one character by one of the MaxDelta next ones
\* of the bech32 alphabet.
MaxDelta == 1

\* The attempts a mining is followed for, and the highest difficulty asked.
MaxAttempts == 8

MaxDifficulty == 2

\* generate_mnemonic is asked for 0..MaxWordCount words.
MaxWordCount == 50

\* The fields a Metadata is given.
MaxFields == 2

(***************************************************************************)
(* Characters and strings.  A string is a sequence of one-character        *)
(* strings.                                                                *)
(***************************************************************************)
LowerAlpha ==
    << "a", "b", "c", "d", "e", "f", "g", "h", "i", "j", "k", "l", "m",
       "n", "o", "p", "q", "r", "s", "t", "u", "v", "w", "x", "y", "z" >>

UpperAlpha ==
    << "A", "B", "C", "D", "E", "F", "G", "H", "I", "J", "K", "L", "M",
       "N", "O", "P", "Q", "R", "S", "T", "U", "V", "W", "X", "Y", "Z" >>

Digits == << "0", "1", "2", "3", "4", "5", "6", "7", "8", "9" >>

Range(s) == { s[i] : i \in 1..Len(s) }

IndexOf(s, c) == CHOOSE i \in 1..Len(s) : s[i] = c

IsLowerChar(c) == c \in Range(LowerAlpha)

IsUpperChar(c) == c \in Range(UpperAlpha)

ToLowerChar(c) == IF IsUpperChar(c) THEN LowerAlpha[IndexOf(UpperAlpha, c)] ELSE c

ToUpperChar(c) == IF IsLowerChar(c) THEN UpperAlpha[IndexOf(LowerAlpha, c)] ELSE c

ToLower(s) == [i \in 1..Len(s) |-> ToLowerChar(s[i])]

ToUpper(s) == [i \in 1..Len(s) |-> ToUpperChar(s[i])]

\* ASCII code of the characters the model uses.
Ascii(c) ==
    IF IsLowerChar(c) THEN 96 + IndexOf(LowerAlpha, c)
    ELSE IF IsUpperChar(c) THEN 64 + IndexOf(UpperAlpha, c)
    ELSE IF c \in Range(Digits) THEN 47 + IndexOf(Digits, c)
    ELSE IF c = "\"" THEN 34
    ELSE IF c = "," THEN 44
    ELSE IF c = "[" THEN 91
    ELSE IF c = "\\" THEN 92
    ELSE IF c = "]" THEN 93
    ELSE 32

\* F of the value of v: v is evaluated first, once.
Let(v, F(_)) == CHOOSE out \in { F(x) : x \in { v } } : TRUE

(***************************************************************************)
(* Bit operations on naturals.                                             *)
(***************************************************************************)
\* The exclusive or of the bits lo..hi (bit 0 is the lowest) of a and b.
RECURSIVE XorBits(_, _, _, _)
XorBits(a, b, lo, hi) ==
    IF lo = hi THEN (((a \div (2 ^ lo)) + (b \div (2 ^ lo))) % 2) * (2 ^ lo)
    ELSE XorBits(a, b, lo, (lo + hi) \div 2) + XorBits(a, b, ((lo + hi) \div 2) + 1, hi)

\* The exclusive or of two numbers below 2^30.
Xor(a, b) == Let(a, LAMBDA x : Let(b, LAMBDA y : XorBits(x, y, 0, 29)))

(***************************************************************************)
(* The bech32 codec (bitcoin::bech32) that key.rs calls.                   *)
(***************************************************************************)
CHARSET ==
    << "q", "p", "z", "r", "y", "9", "x", "8", "g", "f", "2", "t", "v", "d", "w", "0",
       "s", "3", "j", "n", "5", "4", "k", "h", "c", "e", "6", "m", "u", "a", "7", "l" >>

SEP == "1"

CHECKSUM_LENGTH == 6

GEN == << 996825010, 642813549, 513874426, 1027748829, 705979059 >>

BECH32_CONST == 1

BECH32M_CONST == 734539939

\* chk with the generator g added when bit is set.
XorIf(bit, chk, g) == IF bit % 2 = 1 THEN Xor(chk, g) ELSE chk

\* The generators selected by the five bits of b, added to chk.
XorGen(b, chk) ==
    XorIf(b \div 16,
          XorIf(b \div 8, XorIf(b \div 4, XorIf(b \div 2, XorIf(b, chk, GEN[1]), GEN[2]), GEN[3]), GEN[4]),
          GEN[5])

\* One round of the checksum register: shift in the 5-bit value v.
PolymodStep(chk, v) == XorGen(chk \div 33554432, Xor((chk % 33554432) * 32, v))

\* The register chk after the values at positions lo..hi were shifted in:
\* the first half of them, then the second.
RECURSIVE PolymodFrom(_, _, _, _)
PolymodFrom(chk, values, lo, hi) ==
    IF lo > hi THEN chk
    ELSE IF lo = hi THEN PolymodStep(chk, values[lo])
    ELSE Let(PolymodFrom(chk, values, lo, (lo + hi) \div 2),
             LAMBDA half : PolymodFrom(half, values, ((lo + hi) \div 2) + 1, hi))

Polymod(values) == PolymodFrom(1, values, 1, Len(values))

HrpExpand(hrp) ==
    [i \in 1..Len(hrp) |-> Ascii(hrp[i]) \div 32]
        \o << 0 >>
        \o [i \in 1..Len(hrp) |-> Ascii(hrp[i]) % 32]

\* The 5-bit groups of the 30-bit number plm, the highest first.
ChecksumGroups(plm) ==
    [p \in 1..CHECKSUM_LENGTH |-> (plm \div (2 ^ (5 * (CHECKSUM_LENGTH - p)))) % 32]

\* The six 5-bit checksum values of (hrp, data) under a variant's constant.
CreateChecksum(hrp, data, const) ==
    ChecksumGroups(Xor(Polymod(HrpExpand(hrp) \o data \o << 0, 0, 0, 0, 0, 0 >>), const))

\* The variant whose constant the residue plm is, "None" when it is neither's.
VariantOf(plm) ==
    IF plm = BECH32_CONST THEN "Bech32"
    ELSE IF plm = BECH32M_CONST THEN "Bech32m"
    ELSE "None"

VerifyChecksum(hrp, data) == VariantOf(Polymod(HrpExpand(hrp) \o data))

VariantConst(variant) == IF variant = "Bech32" THEN BECH32_CONST ELSE BECH32M_CONST

\* The characters of 5-bit values.
CharsOf(values) == [i \in 1..Len(values) |-> CHARSET[values[i] + 1]]

\* bech32::encode: the prefix in lower case, the separator, the data and
\* the checksum in the bech32 alphabet.
Bech32Encode(hrp, data, variant) ==
    ToLower(hrp) \o << SEP >> \o CharsOf(data)
        \o CharsOf(CreateChecksum(ToLower(hrp), data, VariantConst(variant)))


(***************************************************************************)
(* Results and options.  Option<T> is a sequence of at most one element.   *)
(***************************************************************************)
None == << >>

Some(x) == << x >>

Ok(v) == [ok |-> TRUE, val |-> Some(v), err |-> "none"]

Err(e) == [ok |-> FALSE, val |-> None, err |-> e]

\* res?: the error of res, or F of its value.
AndThen(res, F(_)) == Let(res, LAMBDA r : IF r.ok THEN F(r.val[1]) ELSE r)

\* res.map_err(|_| e)?: the error e when res is one, or F of its value.
Try(res, e, F(_)) == Let(res, LAMBDA r : IF r.ok THEN F(r.val[1]) ELSE Err(e))

SubStr(s, from, to) == [i \in 1..(to - from + 1) |-> s[from + i - 1]]

(***************************************************************************)
(* bech32::decode                                                          *)
(***************************************************************************)
\* str::rfind(SEP): the index of the last separator, 0 when there is none.
RFindSep(s) ==
    IF \E i \in 1..Len(s) : s[i] = SEP
    THEN CHOOSE i \in 1..Len(s) : s[i] = SEP /\ \A j \in (i + 1)..Len(s) : s[j] # SEP
    ELSE 0

\* check_hrp: "Upper", "Lower" or "None", or an error.
CheckHrp(hrp) ==
    IF Len(hrp) = 0 \/ Len(hrp) > 83 THEN Err("InvalidLength")
    ELSE IF (\E i \in 1..Len(hrp) : IsLowerChar(hrp[i])) /\ (\E i \in 1..Len(hrp) : IsUpperChar(hrp[i]))
         THEN Err("MixedCase")
    ELSE IF \E i \in 1..Len(hrp) : IsUpperChar(hrp[i]) THEN Ok("Upper")
    ELSE IF \E i \in 1..Len(hrp) : IsLowerChar(hrp[i]) THEN Ok("Lower")
    ELSE Ok("None")

\* CHARSET_REV: both cases of a letter of the alphabet map to its value.
InCharset(c) == ToLowerChar(c) \in Range(CHARSET)

CharsetRev(c) == IndexOf(CHARSET, ToLowerChar(c)) - 1

\* The case after the character c.
CaseAfter(c, case) ==
    IF IsLowerChar(c) THEN "Lower" ELSE IF IsUpperChar(c) THEN "Upper" ELSE case

\* The case in force when the character at position i is read: the case
\* of the prefix, or of the first letter before i when the prefix has none.
CaseAt(raw, i, case) ==
    IF case # "None" \/ \A j \in 1..(i - 1) : ~IsLowerChar(raw[j]) /\ ~IsUpperChar(raw[j]) THEN case
    ELSE CaseAfter(raw[CHOOSE j \in 1..(i - 1) :
                           /\ IsLowerChar(raw[j]) \/ IsUpperChar(raw[j])
                           /\ \A k \in 1..(j - 1) : ~IsLowerChar(raw[k]) /\ ~IsUpperChar(raw[k])],
                   case)

\* The error the character c raises under a case, "none" when it raises none.
CharError(c, case) ==
    IF IsLowerChar(c) /\ case = "Upper" THEN "MixedCase"
    ELSE IF IsUpperChar(c) /\ case = "Lower" THEN "MixedCase"
    ELSE IF ~InCharset(c) THEN "InvalidChar"
    ELSE "none"

\* The data part, character by character, tracking the case seen so far:
\* the error of the first character that raises one, or the values.
DecodeData(raw, case) ==
    IF \E i \in 1..Len(raw) : CharError(raw[i], CaseAt(raw, i, case)) # "none"
    THEN Err(CharError(raw[CHOOSE i \in 1..Len(raw) :
                               /\ CharError(raw[i], CaseAt(raw, i, case)) # "none"
                               /\ \A j \in 1..(i - 1) : CharError(raw[j], CaseAt(raw, j, case)) = "none"],
                       CaseAt(raw, CHOOSE i \in 1..Len(raw) :
                               /\ CharError(raw[i], CaseAt(raw, i, case)) # "none"
                               /\ \A j \in 1..(i - 1) : CharError(raw[j], CaseAt(raw, j, case)) = "none",
                              case)))
    ELSE Ok([i \in 1..Len(raw) |-> CharsetRev(raw[i])])

\* The prefix and the data of the two parts of a text.
DecodeParts(raw_hrp, raw_data) ==
    IF Len(raw_data) < CHECKSUM_LENGTH THEN Err("InvalidLength")
    ELSE AndThen(CheckHrp(raw_hrp), LAMBDA case :
         AndThen(DecodeData(raw_data, case), LAMBDA data :
             Ok([hrp |-> ToLower(raw_hrp), data |-> data])))

\* The text split at the separator at position sep.
SplitAt(s, sep) ==
    IF sep = 0 THEN Err("MissingSeparator")
    ELSE DecodeParts(SubStr(s, 1, sep - 1), SubStr(s, sep + 1, Len(s)))

SplitAndDecode(s) == SplitAt(s, RFindSep(s))

\* The parts with the checksum removed, in the variant the checksum is of.
Checked(hrp, data, variant) ==
    IF variant = "None" THEN Err("InvalidChecksum")
    ELSE Ok([hrp     |-> hrp,
             data    |-> SubStr(data, 1, Len(data) - CHECKSUM_LENGTH),
             variant |-> variant])

\* Ok([hrp, data, variant]) with the checksum removed from data, or an error.
Bech32Decode(s) ==
    AndThen(SplitAndDecode(s), LAMBDA sd : Checked(sd.hrp, sd.data, VerifyChecksum(sd.hrp, sd.data)))


(***************************************************************************)
(* ToBase32 / FromBase32: regrouping of bits through an accumulator.       *)
(***************************************************************************)
\* Emit groups of `to` bits while the accumulator holds that many.
RECURSIVE Drain(_, _, _)

\* The group v emitted before what r emits.
Prepend(v, r) == [r EXCEPT !.ret = << v >> \o r.ret]

Drain(acc, bits, to) ==
    IF bits < to THEN [ret |-> << >>, acc |-> acc, bits |-> bits]
    ELSE Prepend(acc \div (2 ^ (bits - to)), Drain(acc % (2 ^ (bits - to)), bits - to, to))

\* The groups of d followed by those of rest, in the state rest ended in.
Emitted(d, rest) == [rest EXCEPT !.ret = d.ret \o rest.ret]

RECURSIVE ConvertFrom(_, _, _, _, _, _)

\* The conversion goes on from data[i] with what Drain left.
ConvertNext(data, i, d, from, to) ==
    Emitted(d, ConvertFrom(data, i, d.acc, d.bits, from, to))

ConvertFrom(data, i, acc, bits, from, to) ==
    IF i > Len(data) \/ acc < 0 THEN [err |-> FALSE, ret |-> << >>, acc |-> acc, bits |-> bits]
    ELSE IF data[i] \div (2 ^ from) # 0 THEN [err |-> TRUE, ret |-> << >>, acc |-> 0, bits |-> 0]
    ELSE ConvertNext(data, i + 1, Drain(acc * (2 ^ from) + data[i], bits + from, to), from, to)

\* The bits left in the accumulator, as a last group.
LastGroup(st, to) == (st.acc * (2 ^ (to - st.bits))) % (2 ^ to)

ConvertEnd(st, from, to, pad) ==
    IF st.err THEN Err("InvalidData")
    ELSE IF pad THEN Ok(IF st.bits > 0 THEN st.ret \o << LastGroup(st, to) >> ELSE st.ret)
    ELSE IF st.bits >= from \/ LastGroup(st, to) # 0 THEN Err("InvalidPadding")
    ELSE Ok(st.ret)

ConvertBits(data, from, to, pad) == ConvertEnd(ConvertFrom(data, 1, 0, 0, from, to), from, to, pad)

ToBase32(bytes) == ConvertBits(bytes, 8, 5, TRUE).val[1]

FromBase32(data) == ConvertBits(data, 5, 8, FALSE)

(***************************************************************************)
(* Hexadecimal text of byte strings.                                       *)
(***************************************************************************)
HexLower ==
    << "0", "1", "2", "3", "4", "5", "6", "7", "8", "9", "a", "b", "c", "d", "e", "f" >>

IsHexChar(c) == ToLowerChar(c) \in Range(HexLower)

HexVal(c) == IndexOf(HexLower, ToLowerChar(c)) - 1

\* LowerHex / display_secret
ToHex(bytes) ==
    [i \in 1..(2 * Len(bytes)) |->
        IF i % 2 = 1 THEN HexLower[(bytes[(i + 1) \div 2] \div 16) + 1]
        ELSE HexLower[(bytes[i \div 2] % 16) + 1]]

\* secp256k1::from_hex into a buffer of target_len bytes: the bytes read.
FromHex(s, target_len) ==
    IF Len(s) % 2 = 1 \/ Len(s) > target_len * 2 THEN Err("hex")
    ELSE IF \E i \in 1..Len(s) : ~IsHexChar(s[i]) THEN Err("hex")
    ELSE Ok([i \in 1..(Len(s) \div 2) |-> 16 * HexVal(s[2 * i - 1]) + HexVal(s[2 * i])])


(***************************************************************************)
(* The curve (bitcoin::secp256k1) at a reduced size: y^2 = x^3 + 7 over    *)
(* the field of FIELD_P elements, a group of prime order CURVE_ORDER       *)
(* generated by G.  Every product stays below 2^31.                        *)
(***************************************************************************)
FIELD_P == 31627

CURVE_ORDER == 31357

G == << 2, 5839 >>

Infinity == << >>

MulMod(a, b, m) == (a * b) % m

\* h squared, times b when the exponent's bit is set.
SquareAndMultiply(h, b, bit, m) ==
    IF bit = 1 THEN MulMod(MulMod(h, h, m), b % m, m) ELSE MulMod(h, h, m)

\* Square-and-multiply over the bits hi down to lo of the exponent e (bit 0
\* is the lowest), from h: the upper half of the bits, then the lower.
RECURSIVE PowBits(_, _, _, _, _, _)
PowBits(h, b, e, lo, hi, m) ==
    IF lo = hi THEN SquareAndMultiply(h, b, (e \div (2 ^ lo)) % 2, m)
    ELSE Let(PowBits(h, b, e, ((lo + hi) \div 2) + 1, hi, m),
             LAMBDA upper : PowBits(upper, b, e, lo, (lo + hi) \div 2, m))

\* b to the power e modulo m, for e below 2^30.
ModPow(b, e, m) == PowBits(1, b, e, 0, 29, m)

ModInv(a) == ModPow(a % FIELD_P, FIELD_P - 2, FIELD_P)

\* The slope of the line through P and Q, of the tangent when they are equal.
Slope(P, Q) ==
    IF P = Q
    THEN MulMod((3 * MulMod(P[1], P[1], FIELD_P)) % FIELD_P, ModInv(2 * P[2]), FIELD_P)
    ELSE MulMod((Q[2] - P[2]) % FIELD_P, ModInv(Q[1] - P[1]), FIELD_P)

\* The point of abscissa x on the line of slope lam through P, mirrored.
PointAt(P, lam, x) == << x, (lam * ((P[1] - x) % FIELD_P) - P[2]) % FIELD_P >>

ThirdPoint(P, Q, lam) == PointAt(P, lam, (lam * lam - P[1] - Q[1]) % FIELD_P)

PointAdd(P, Q) ==
    IF P = Infinity THEN Q
    ELSE IF Q = Infinity THEN P
    ELSE IF P[1] = Q[1] /\ (P[2] + Q[2]) % FIELD_P = 0 THEN Infinity
    ELSE ThirdPoint(P, Q, Slope(P, Q))

\* Twice h, plus P when the scalar's bit is set.
DoubleAndAdd(h, P, bit) ==
    IF bit = 1 THEN PointAdd(PointAdd(h, h), P) ELSE PointAdd(h, h)

\* Double-and-add over the bits hi down to lo of the scalar k, from h: the
\* upper half of the bits, then the lower.
RECURSIVE MulBits(_, _, _, _, _)
MulBits(h, P, k, lo, hi) ==
    IF lo = hi THEN DoubleAndAdd(h, P, (k \div (2 ^ lo)) % 2)
    ELSE Let(MulBits(h, P, k, ((lo + hi) \div 2) + 1, hi),
             LAMBDA upper : MulBits(upper, P, k, lo, (lo + hi) \div 2))

\* k times the point P, for k below 2^30.
ScalarMul(k, P) == MulBits(Infinity, P, k, 0, 29)

\* Whether x is the abscissa of a point of the curve.
IsOnCurveX(x) ==
    /\ x < FIELD_P
    /\ ModPow((((((x * x) % FIELD_P) * x) % FIELD_P) + 7) % FIELD_P, (FIELD_P - 1) \div 2, FIELD_P) = 1

RECURSIVE BytesToInt(_)
BytesToInt(b) ==
    IF Len(b) = 0 THEN 0
    ELSE 256 * BytesToInt(SubStr(b, 1, Len(b) - 1)) + b[Len(b)]

\* Big-endian bytes of n, len of them.
IntToBytes(n, len) == [i \in 1..len |-> (n \div (256 ^ (len - i))) % 256]

\* SecretKey::from_slice: KeyLen bytes, not zero and below the group order.
SecretKeyFromSlice(data) ==
    IF Len(data) # KeyLen THEN Err("InvalidSecretKey")
    ELSE IF BytesToInt(data) = 0 \/ BytesToInt(data) >= CURVE_ORDER THEN Err("InvalidSecretKey")
    ELSE Ok(data)

\* XOnlyPublicKey::from_slice: KeyLen bytes that are the abscissa of a point.
XOnlyPublicKeyFromSlice(data) ==
    IF Len(data) = 0 \/ Len(data) # KeyLen THEN Err("InvalidPublicKey")
    ELSE IF ~IsOnCurveX(BytesToInt(data)) THEN Err("InvalidPublicKey")
    ELSE Ok(data)

\* The bytes from_hex read, when there are KeyLen of them.
FullLength(res) == res.ok /\ Len(res.val[1]) = KeyLen

\* SecretKey::from_str: hexadecimal text of exactly KeyLen bytes.
SecretKeyFromHex(res) ==
    IF FullLength(res) THEN SecretKeyFromSlice(res.val[1]) ELSE Err("InvalidSecretKey")

SecretKeyFromStr(s) == SecretKeyFromHex(FromHex(s, KeyLen))

\* XOnlyPublicKey::from_str
XOnlyPublicKeyFromHex(res) ==
    IF FullLength(res) THEN XOnlyPublicKeyFromSlice(res.val[1]) ELSE Err("InvalidPublicKey")

XOnlyPublicKeyFromStr(s) == XOnlyPublicKeyFromHex(FromHex(s, KeyLen))

\* KeyPair::from_secret_key: the secret with its point.
KeyPairFromSecretKey(sk) == [secret |-> sk, point |-> ScalarMul(BytesToInt(sk), G)]

\* XOnlyPublicKey::from_keypair(..).0: the abscissa of the pair's point.
XOnlyPublicKeyFromKeypair(kp) == IntToBytes(kp.point[1], KeyLen)

(***************************************************************************)
(* key.rs                                                                  *)
(***************************************************************************)
PREFIX_BECH32_SECRET_KEY == << "n", "s", "e", "c" >>

PREFIX_BECH32_PUBLIC_KEY == << "n", "p", "u", "b" >>

\* to_bech32 of a public key with the prefix of secret keys.
to_bech32_public_key_nsec(pk) ==
    Ok(Bech32Encode(PREFIX_BECH32_SECRET_KEY, ToBase32(pk), "Bech32"))

\* impl ToBech32 for XOnlyPublicKey
to_bech32_public_key(pk) == Ok(Bech32Encode(PREFIX_BECH32_PUBLIC_KEY, ToBase32(pk), "Bech32"))

\* impl ToBech32 for SecretKey
to_bech32_secret_key(sk) == Ok(Bech32Encode(PREFIX_BECH32_SECRET_KEY, ToBase32(sk), "Bech32"))

\* The Keys of a key pair and its secret.
KeysOf(kp, sk) ==
    [public_key |-> XOnlyPublicKeyFromKeypair(kp), key_pair |-> Some(kp), secret_key |-> Some(sk)]

\* Keys::new with the public key read from the secret key's bytes instead
\* of the key pair.
new_public_key_of_bytes(sk) ==
    [public_key |-> sk, key_pair |-> Some(KeyPairFromSecretKey(sk)), secret_key |-> Some(sk)]

\* Keys::new
new(sk) == KeysOf(KeyPairFromSecretKey(sk), sk)

\* Keys::from_public_key
from_public_key(pk) == [public_key |-> pk, key_pair |-> None, secret_key |-> None]

\* Keys::public_key
public_key(self) == self.public_key

\* Keys::secret_key
secret_key(self) ==
    IF self.secret_key # None THEN Ok(self.secret_key[1]) ELSE Err("SkMissing")

\* Keys::key_pair with the error of secret_key.
key_pair_sk_missing(self) ==
    IF self.key_pair # None THEN Ok(self.key_pair[1]) ELSE Err("SkMissing")

\* Keys::key_pair
key_pair(self) ==
    IF self.key_pair # None THEN Ok(self.key_pair[1]) ELSE Err("KeyPairMissing")

\* Keys::secret_key_as_str
secret_key_as_str(self) == AndThen(secret_key(self), LAMBDA sk : Ok(ToHex(sk)))

\* Keys::public_key_as_str
public_key_as_str(self) == ToHex(self.public_key)

\* from_bech32 that leaves the key pair out of the Keys it puts together.
from_bech32_without_key_pair(s) ==
    Try(Bech32Decode(s), "Bech32SkParseError", LAMBDA dec :
        IF dec.hrp # PREFIX_BECH32_SECRET_KEY \/ dec.variant # "Bech32"
        THEN Err("Bech32SkParseError")
        ELSE Try(FromBase32(dec.data), "Bech32SkParseError", LAMBDA data :
             Try(SecretKeyFromSlice(data), "Bech32SkParseError", LAMBDA sk :
                 Ok([public_key |-> XOnlyPublicKeyFromKeypair(KeyPairFromSecretKey(sk)),
                     key_pair   |-> None,
                     secret_key |-> Some(sk)]))))

\* impl FromBech32 for Keys: from_bech32
from_bech32(s) ==
    Try(Bech32Decode(s), "Bech32SkParseError", LAMBDA dec :
        IF dec.hrp # PREFIX_BECH32_SECRET_KEY \/ dec.variant # "Bech32"
        THEN Err("Bech32SkParseError")
        ELSE Try(FromBase32(dec.data), "Bech32SkParseError", LAMBDA data :
             Try(SecretKeyFromSlice(data), "Bech32SkParseError", LAMBDA sk :
                 Ok(KeysOf(KeyPairFromSecretKey(sk), sk)))))

\* from_bech32_public_key that does not look at the checksum variant.
from_bech32_public_key_any_variant(s) ==
    Try(Bech32Decode(s), "Bech32PkParseError", LAMBDA dec :
        IF dec.hrp # PREFIX_BECH32_PUBLIC_KEY
        THEN Err("Bech32PkParseError")
        ELSE Try(FromBase32(dec.data), "Bech32PkParseError", LAMBDA data :
             Try(XOnlyPublicKeyFromSlice(data), "Secp256k1", LAMBDA pk :
                 Ok([public_key |-> pk, key_pair |-> None, secret_key |-> None]))))

\* impl FromBech32 for Keys: from_bech32_public_key.  The key bytes are
\* checked with `?`, which passes the curve library's error on.
from_bech32_public_key(s) ==
    Try(Bech32Decode(s), "Bech32PkParseError", LAMBDA dec :
        IF dec.hrp # PREFIX_BECH32_PUBLIC_KEY \/ dec.variant # "Bech32"
        THEN Err("Bech32PkParseError")
        ELSE Try(FromBase32(dec.data), "Bech32PkParseError", LAMBDA data :
             Try(XOnlyPublicKeyFromSlice(data), "Secp256k1", LAMBDA pk :
                 Ok([public_key |-> pk, key_pair |-> None, secret_key |-> None]))))

\* A result with the parsers the call ran, in order.
Called(res, calls) == [res |-> res, calls |-> calls]

\* The second arm of from_sk_str: the text as bech32.
SkStrBech32(b) ==
    Called(IF b.ok THEN b ELSE Err("InvalidSecretKey"), << "from_str", "from_bech32" >>)

\* impl FromSkStr for Keys: the text as hexadecimal, then as bech32.
SkStrHex(hex, s) ==
    IF hex.ok THEN Called(Ok(new(hex.val[1])), << "from_str" >>) ELSE SkStrBech32(from_bech32(s))

\* from_sk_str that takes the text as bech32 first.
SkStrBech32First(b, hex) ==
    IF b.ok THEN Called(b, << "from_bech32" >>)
    ELSE Called(IF hex.ok THEN Ok(new(hex.val[1])) ELSE Err("InvalidSecretKey"),
                << "from_bech32", "from_str" >>)

from_sk_str_bech32_first(s) == SkStrBech32First(from_bech32(s), SecretKeyFromStr(s))

from_sk_str(s) == SkStrHex(SecretKeyFromStr(s), s)

\* The second arm of from_pk_str: the text as bech32.
PkStrBech32(b) ==
    Called(IF b.ok THEN b ELSE Err("InvalidSecretKey"), << "from_str", "from_bech32_public_key" >>)

\* impl FromPkStr for Keys: the text as hexadecimal, then as bech32.
PkStrHex(hex, s) ==
    IF hex.ok THEN Called(Ok(from_public_key(hex.val[1])), << "from_str" >>)
    ELSE PkStrBech32(from_bech32_public_key(s))

from_pk_str(s) == PkStrHex(XOnlyPublicKeyFromStr(s), s)


(***************************************************************************)
(* The inputs the operations are called with.                              *)
(***************************************************************************)
\* Key material: small scalars, a scalar that is no abscissa of the curve,
\* one with two non-zero bytes, the ends of the valid range and all ones.
SampleScalars ==
    (0..MaxScalar) \cup { 301, 4660, CURVE_ORDER - 1, CURVE_ORDER, (256 ^ KeyLen) - 1 }

KeyBytes == { IntToBytes(v, KeyLen) : v \in SampleScalars }

\* The values of type SecretKey and XOnlyPublicKey among them.
ValidSecrets == { b \in KeyBytes : SecretKeyFromSlice(b).ok }

ValidPublics ==
    { b \in KeyBytes : XOnlyPublicKeyFromSlice(b).ok }
        \cup { XOnlyPublicKeyFromKeypair(KeyPairFromSecretKey(b)) : b \in ValidSecrets }

\* Byte strings put into texts: the above and two of the wrong length.
Payloads ==
    KeyBytes \cup ValidPublics \cup { IntToBytes(1, KeyLen - 1), IntToBytes(1, KeyLen + 1) }

PREFIX_OTHER == << "n", "o", "t", "e" >>

Prefixes == { PREFIX_BECH32_SECRET_KEY, PREFIX_BECH32_PUBLIC_KEY, PREFIX_OTHER }

\* A text with what is known of it by construction: its form, the prefix and
\* checksum variant it was encoded with, the damage done to it afterwards
\* and the bytes it was made from.
TextInput(s, form, hrp, variant, damage, src) ==
    [s |-> s, form |-> form, hrp |-> hrp, variant |-> variant, damage |-> damage, src |-> src]

EncodedTexts ==
    { TextInput(Bech32Encode(h, ToBase32(b), v), "bech32", h, v, "none", b) :
        h \in Prefixes, b \in Payloads, v \in { "Bech32", "Bech32m" } }

\* The well-formed key texts: the damage is done to these.
KeyTexts ==
    { t \in EncodedTexts : t.variant = "Bech32" /\ t.hrp # PREFIX_OTHER }

\* The first position after the separator that holds a lower-case letter,
\* 0 when there is none.
FirstLetterAfterSep(s) ==
    LET P == { i \in (RFindSep(s) + 1)..Len(s) : IsLowerChar(s[i]) }
    IN  IF P = {} THEN 0 ELSE CHOOSE i \in P : \A j \in P : i <= j

\* s with the character at position i replaced by the d-th next one of the
\* bech32 alphabet.
Alter(s, i, d) == [s EXCEPT ![i] = CHARSET[((CharsetRev(s[i]) + d) % 32) + 1]]

\* The text of the same prefix whose last 5-bit group has a padding bit set.
BadPadding(t) ==
    LET data == ToBase32(t.src)
        bad  == [data EXCEPT ![Len(data)] = data[Len(data)] + 1 - 2 * (data[Len(data)] % 2)]
    IN  Bech32Encode(t.hrp, bad, "Bech32")

DamagedTexts ==
    { TextInput(ToUpper(t.s), "bech32", t.hrp, t.variant, "upper", t.src) : t \in KeyTexts }
        \cup { TextInput([t.s EXCEPT ![1] = ToUpperChar(t.s[1])],
                         "bech32", t.hrp, t.variant, "mixed_case", t.src) : t \in KeyTexts }
        \cup { TextInput([t.s EXCEPT ![FirstLetterAfterSep(t.s)] = ToUpperChar(t.s[FirstLetterAfterSep(t.s)])],
                         "bech32", t.hrp, t.variant, "mixed_case", t.src) :
                 t \in { u \in KeyTexts : FirstLetterAfterSep(u.s) # 0 } }
        \cup { TextInput(Alter(t.s, Len(t.s) - CHECKSUM_LENGTH + k, d),
                         "bech32", t.hrp, t.variant, "altered_checksum", t.src) :
                 t \in KeyTexts, k \in 1..CHECKSUM_LENGTH, d \in 1..MaxDelta }
        \cup { TextInput(Alter(t.s, Len(t.hrp) + 1 + k, d),
                         "bech32", t.hrp, t.variant, "altered_data", t.src) :
                 t \in { u \in KeyTexts : Len(u.src) = KeyLen },
                 k \in 1..(Len(ToBase32(IntToBytes(0, KeyLen)))), d \in 1..MaxDelta }
        \cup { TextInput(BadPadding(t), "bech32", t.hrp, t.variant, "padding", t.src) : t \in KeyTexts }

HexTexts ==
    { TextInput(ToHex(b), "hex", << >>, "none", "none", b) : b \in Payloads }
        \cup { TextInput(ToUpper(ToHex(b)), "hex", << >>, "none", "upper", b) : b \in Payloads }
        \cup { TextInput(<< "z", "z" >>, "hex", << >>, "none", "not_hex", << >>),
               TextInput(<< >>, "hex", << >>, "none", "not_hex", << >>) }

TextInputs == EncodedTexts \cup DamagedTexts \cup HexTexts


(***************************************************************************)
(* nip06.rs: keys from a BIP-39 mnemonic.  A phrase is a sequence of word   *)
(* indices of the word list; the hash functions of BIP-39 and BIP-32 are    *)
(* stood for by a mixing function.                                          *)
(***************************************************************************)
WORDLIST_SIZE == 2048

\* Stand-in for the hash functions: a digest of a sequence of naturals.
\* h after the values at positions lo..hi were mixed in: the first half of
\* them, then the second.
RECURSIVE MixFrom(_, _, _, _, _)
MixFrom(h, values, lo, hi, m) ==
    IF lo > hi THEN h
    ELSE IF lo = hi THEN (h * 31 + values[lo] + 7) % m
    ELSE Let(MixFrom(h, values, lo, (lo + hi) \div 2, m),
             LAMBDA half : MixFrom(half, values, ((lo + hi) \div 2) + 1, hi, m))

Mix(values, m) == MixFrom(1, values, 1, Len(values), m)

\* The checksum of BIP-39: the first Len(entropy) / 4 bits of a hash.
MnemonicChecksum(entropy) == Mix(entropy, 2 ^ (Len(entropy) \div 4))

\* The n-bit number at bits from..from+n-1 (the first bit is bit 1) of a
\* sequence of w-bit numbers.
RECURSIVE BitsValue(_, _, _, _)
BitsValue(values, w, from, n) ==
    IF n = 0 THEN 0
    ELSE 2 * BitsValue(values, w, from, n - 1)
         + ((values[((from + n - 2) \div w) + 1] \div (2 ^ (w - 1 - ((from + n - 2) % w)))) % 2)

\* Mnemonic::from_entropy: 16 to 32 bytes, a multiple of 4 of them; the
\* words are the 11-bit groups of the entropy followed by its checksum.
MnemonicFromEntropy(entropy) ==
    IF Len(entropy) % 4 # 0 \/ Len(entropy) < 16 \/ Len(entropy) > 32
    THEN Err("BIP39")
    ELSE LET cs    == Len(entropy) \div 4
             nw    == (8 * Len(entropy) + cs) \div 11
             check == MnemonicChecksum(entropy)
             tail  == 8 * Len(entropy) - 11 * (nw - 1)
         IN  Ok([w \in 1..nw |->
                    IF w < nw THEN BitsValue(entropy, 8, 11 * (w - 1) + 1, 11)
                    ELSE BitsValue(entropy, 8, 11 * (w - 1) + 1, tail) * (2 ^ cs) + check])

\* Mnemonic::from_str: 12 to 24 known words, a multiple of 3 of them, the
\* last bits of which are the checksum of the others.
MnemonicFromStr(words) ==
    IF Len(words) % 3 # 0 \/ Len(words) < 12 \/ Len(words) > 24 THEN Err("BIP39")
    ELSE IF \E i \in 1..Len(words) : words[i] >= WORDLIST_SIZE THEN Err("BIP39")
    ELSE LET nb      == (Len(words) * 4) \div 3
             entropy == [k \in 1..nb |-> BitsValue(words, 11, 8 * (k - 1) + 1, 8)]
             check   == BitsValue(words, 11, 8 * nb + 1, 11 * Len(words) - 8 * nb)
         IN  IF check # MnemonicChecksum(entropy) THEN Err("BIP39") ELSE Ok(words)

\* Mnemonic::to_seed: the phrase stretched with the passphrase.
ToSeed(mnemonic, passphrase) == << Mix(mnemonic \o << 0 >> \o passphrase, FIELD_P) >>

\* ExtendedPrivKey::new_master: a key and a chain code from the seed.
NewMaster(seed) ==
    [private_key |-> 1 + Mix(<< 1 >> \o seed, CURVE_ORDER - 1), chain_code |-> Mix(<< 2 >> \o seed, FIELD_P)]

\* m/44'/1237'/0'/0/0: the child numbers, hardened ones offset by 2^31 (here 2^20).
DERIVATION_PATH == << 44 + 1048576, 1237 + 1048576, 0 + 1048576, 0, 0 >>

\* One step of child key derivation.
CkdPriv(xprv, child) ==
    LET i == Mix(<< xprv.chain_code, xprv.private_key, child % 1024, child \div 1024 >>, CURVE_ORDER - 1)
    IN  [private_key |-> 1 + ((xprv.private_key - 1 + i) % (CURVE_ORDER - 1)),
         chain_code  |-> Mix(<< 3, xprv.chain_code, child % 1024, child \div 1024 >>, FIELD_P)]

RECURSIVE DerivePriv(_, _, _)
DerivePriv(xprv, path, i) ==
    IF i > Len(path) THEN xprv
    ELSE Let(CkdPriv(xprv, path[i]), LAMBDA child : DerivePriv(child, path, i + 1))

\* The seed of a phrase and an optional passphrase.
SeedOf(mnemonic, passphrase) ==
    ToSeed(mnemonic, IF passphrase = None THEN << >> ELSE passphrase[1])

\* impl FromMnemonic for Keys
from_mnemonic(mnemonic, passphrase) ==
    AndThen(MnemonicFromStr(mnemonic), LAMBDA m :
        Let(DerivePriv(NewMaster(SeedOf(m, passphrase)), DERIVATION_PATH, 1), LAMBDA child_xprv :
            Ok(new(IntToBytes(child_xprv.private_key, KeyLen)))))

\* The call does not return: the thread panics.
Panic == [ok |-> FALSE, val |-> None, err |-> "panic"]

\* The bytes of the keyed hash (HMAC-SHA512) generate_mnemonic draws from.
HMAC_OUTPUT_LEN == 64

\* &entropy[0..len]: the first len bytes, a panic when there are fewer.
Slice(entropy, len) == IF len > Len(entropy) THEN Panic ELSE Ok(SubStr(entropy, 1, len))

\* generate_mnemonic that takes word_count bytes of entropy.
generate_mnemonic_len_word_count(word_count, entropy) ==
    AndThen(Slice(entropy, word_count), LAMBDA e : MnemonicFromEntropy(e))

\* impl GenerateMnemonic for Keys: generate_mnemonic, entropy being the
\* output of the keyed hash over the random bytes and the clock.
generate_mnemonic(word_count, entropy) ==
    AndThen(Slice(entropy, (word_count * 4) \div 3), LAMBDA e : MnemonicFromEntropy(e))

\* Outputs of the keyed hash.
HmacOutputs ==
    { [i \in 1..HMAC_OUTPUT_LEN |-> (37 * i) % 256], [i \in 1..HMAC_OUTPUT_LEN |-> (91 * i + 5) % 256] }

WordCounts == 0..MaxWordCount

\* Phrases: two of 12 words and one of 24, one with a word changed, one a
\* word short and one with a word that is not of the list.
SampleEntropies ==
    { [i \in 1..16 |-> 0], [i \in 1..16 |-> (37 * i) % 256], [i \in 1..32 |-> (91 * i + 5) % 256] }

GoodMnemonics == { MnemonicFromEntropy(e).val[1] : e \in SampleEntropies }

Mnemonics ==
    GoodMnemonics
        \cup { [m EXCEPT ![Len(m)] = (m[Len(m)] + 1) % WORDLIST_SIZE] : m \in GoodMnemonics }
        \cup { SubStr(m, 1, Len(m) - 1) : m \in GoodMnemonics }
        \cup { [m EXCEPT ![1] = WORDLIST_SIZE] : m \in GoodMnemonics }

Passphrases == { None, Some(<< 2, 3 >>) }


(***************************************************************************)
(* Events.  The event module of the nostr crate: the canonical form, the   *)
(* id, the signature, mining and verification.  SHA-256 is a digest that   *)
(* no two texts share (the id carries the text it is the digest of, and    *)
(* DIGEST_BITS bits to count leading zeros in); a Schnorr signature is the *)
(* record of who signed what.                                              *)
(***************************************************************************)
RECURSIVE Concat(_)
Concat(seqs) == IF Len(seqs) = 0 THEN << >> ELSE Head(seqs) \o Concat(Tail(seqs))

\* A character of a JSON string: a quote and a backslash are escaped.
EscapeChar(c) == IF c = "\"" \/ c = "\\" THEN << "\\", c >> ELSE << c >>

Escape(s) == Concat([i \in 1..Len(s) |-> EscapeChar(s[i])])

JsonString(s) == << "\"" >> \o Escape(s) \o << "\"" >>

RECURSIVE Decimal(_)
Decimal(n) ==
    IF n < 10 THEN << Digits[n + 1] >> ELSE Decimal(n \div 10) \o << Digits[(n % 10) + 1] >>

\* The items with a comma between each two.
RECURSIVE Joined(_)
Joined(items) ==
    IF Len(items) = 0 THEN << >>
    ELSE IF Len(items) = 1 THEN items[1]
    ELSE items[1] \o << "," >> \o Joined(Tail(items))

JsonArray(items) == << "[" >> \o Joined(items) \o << "]" >>

JsonTag(tag) == JsonArray([i \in 1..Len(tag) |-> JsonString(tag[i])])

JsonTags(tags) == JsonArray([i \in 1..Len(tags) |-> JsonTag(tags[i])])

\* [0,"<pubkey in hex>",created_at,kind,tags,"content"], no white space.
Canonical(pubkey, created_at, kind, tags, content) ==
    JsonArray(<< << "0" >>, JsonString(ToHex(pubkey)), Decimal(created_at), Decimal(kind),
                 JsonTags(tags), JsonString(content) >>)

DIGEST_BITS == 8

\* The digest of a text.
Sha256(chars) ==
    [bits |-> Mix([i \in 1..Len(chars) |-> Ascii(chars[i])], 2 ^ DIGEST_BITS), of |-> chars]

\* The event id of the fields.
gen_id(pubkey, created_at, kind, tags, content) ==
    Sha256(Canonical(pubkey, created_at, kind, tags, content))

\* The zero bits a w-bit number starts with.
RECURSIVE LeadingZeros(_, _)
LeadingZeros(v, w) ==
    IF w = 0 \/ v \div (2 ^ (w - 1)) = 1 THEN 0 ELSE 1 + LeadingZeros(v, w - 1)

\* The zero bits the id starts with, read as a big-endian bit string.
get_leading_zero_bits(id) == LeadingZeros(id.bits, DIGEST_BITS)

\* The signature of the pair's secret on an id, and its verification.
sign_schnorr(id, kp) == [signer |-> XOnlyPublicKeyFromKeypair(kp), msg |-> id]

verify_schnorr(sig, id, pubkey) == sig.signer = pubkey /\ sig.msg = id

\* The event of a draft: the id of its fields, signed with the secret.
Signed(pubkey, created_at, kind, tags, content, sk) ==
    [id         |-> gen_id(pubkey, created_at, kind, tags, content),
     pubkey     |-> pubkey,
     created_at |-> created_at,
     kind       |-> kind,
     tags       |-> tags,
     content    |-> content,
     sig        |-> sign_schnorr(gen_id(pubkey, created_at, kind, tags, content),
                                 KeyPairFromSecretKey(sk))]

\* EventBuilder::to_event of the nostr crate, at the time created_at.
EventBuilderSdk_to_event(builder, keys_, created_at) ==
    AndThen(secret_key(keys_), LAMBDA sk :
        Ok(Signed(public_key(keys_), created_at, builder.kind, builder.tags, builder.content, sk)))

NONCE == << "n", "o", "n", "c", "e" >>

\* The tag ["nonce", "<attempt counter>", "<difficulty>"].
NonceTag(nonce, difficulty) == << NONCE, Decimal(nonce), Decimal(difficulty) >>

\* The tags of the next attempt: the nonce tag of the last one replaced.
NextNonce(tags, nonce, difficulty) ==
    SubStr(tags, 1, Len(tags) - 1) \o << NonceTag(nonce, difficulty) >>

\* The tags of the first attempt whose id has difficulty leading zero bits,
\* none when the attempts allowed are used up.
RECURSIVE Mine(_, _, _, _, _, _)
Mine(builder, pubkey, created_at, difficulty, nonce, tags) ==
    IF nonce > MaxAttempts THEN None
    ELSE IF get_leading_zero_bits(gen_id(pubkey, created_at, builder.kind, tags, builder.content))
                >= difficulty
    THEN Some(tags)
    ELSE Mine(builder, pubkey, created_at, difficulty, nonce + 1,
              NextNonce(tags, nonce + 1, difficulty))

\* The mining from the first attempt on.
Mined(builder, pubkey, created_at, difficulty) ==
    Mine(builder, pubkey, created_at, difficulty, 1,
         builder.tags \o << NonceTag(1, difficulty) >>)

\* The draft with the tags mined, signed as in to_event; nothing when the
\* mining did not end.
MinedToEvent(builder, keys_, created_at, mined) ==
    IF mined = None THEN None
    ELSE Some(AndThen(secret_key(keys_), LAMBDA sk :
              Ok(Signed(public_key(keys_), created_at, builder.kind, mined[1], builder.content, sk))))

\* EventBuilder::to_pow_event of the nostr crate: the nonce is mined, then
\* the event is signed.
EventBuilderSdk_to_pow_event(builder, keys_, created_at, difficulty) ==
    MinedToEvent(builder, keys_, created_at,
                 Mined(builder, public_key(keys_), created_at, difficulty))

\* Event::verify of the nostr crate.
EventSdk_verify(e) ==
    IF e.id # gen_id(e.pubkey, e.created_at, e.kind, e.tags, e.content) THEN Err("InvalidId")
    ELSE IF ~verify_schnorr(e.sig, e.id, e.pubkey) THEN Err("InvalidSignature")
    ELSE Ok(TRUE)

(***************************************************************************)
(* nostr-ffi                                                               *)
(***************************************************************************)
\* impl From<..::Error> for NostrError: Generic with the error's text.
NostrError(res) == IF res.ok THEN res ELSE [ok |-> FALSE, val |-> << res.err >>, err |-> "Generic"]

\* EventBuilder::new
EventBuilder_new(kind, content, tags) == [kind |-> kind, content |-> content, tags |-> tags]

\* EventBuilder::to_event
to_event(self, keys_, created_at) == NostrError(EventBuilderSdk_to_event(self, keys_, created_at))

\* What the call returns when it returns.
Returned(opt) == IF opt = None THEN None ELSE Some(NostrError(opt[1]))

\* to_pow_event that signs the draft as to_event does, without mining.
to_pow_event_unmined(self, keys_, created_at, difficulty) ==
    Some(to_event(self, keys_, created_at))

\* EventBuilder::to_pow_event
to_pow_event(self, keys_, created_at, difficulty) ==
    Returned(EventBuilderSdk_to_pow_event(self, keys_, created_at, difficulty))

\* verify that takes only an id that does not match for a failure.
verify_id_only(self) == EventSdk_verify(self).err # "InvalidId"

\* Event::verify
verify(self) == EventSdk_verify(self).ok

\* Drafts and clock readings.
Kinds == { 0, 1 }

Contents == { << "a" >>, << "a", "\"" >> }

\* The kind and content of the drafts made.
Notes == { [kind |-> 1, content |-> << "a" >>], [kind |-> 0, content |-> << "a", "\"" >>] }

TagLists ==
    { << >>,
      << << << "a" >>, << "b" >> >> >>,
      << << << "a", "\"", ",", "\"", "b" >> >> >>,
      << NonceTag(1, 0) >> }

Times == { 1, 12 }

Difficulties == 0..MaxDifficulty


(***************************************************************************)
(* metadata.rs: the profile record and its JSON text.  A Metadata is a     *)
(* function from the names of its fields to Option values; a Url is the    *)
(* record of its serialization.                                            *)
(***************************************************************************)
\* The fields of struct Metadata, in the order of their declaration.
FIELDS ==
    << << "n", "a", "m", "e" >>,
       << "d", "i", "s", "p", "l", "a", "y", "_", "n", "a", "m", "e" >>,
       << "a", "b", "o", "u", "t" >>,
       << "w", "e", "b", "s", "i", "t", "e" >>,
       << "p", "i", "c", "t", "u", "r", "e" >>,
       << "n", "i", "p", "0", "5" >>,
       << "l", "u", "d", "0", "6" >>,
       << "l", "u", "d", "1", "6" >> >>

\* The fields of type Option<Url>: website and picture.
UrlFields == { FIELDS[4], FIELDS[5] }

\* The position of the first c in s, 0 when there is none.
Find(s, c) ==
    IF \E i \in 1..Len(s) : s[i] = c
    THEN CHOOSE i \in 1..Len(s) : s[i] = c /\ \A j \in 1..(i - 1) : s[j] # c
    ELSE 0

\* The schemes whose urls have a host (a part of url's special schemes).
SpecialSchemes == { << "h", "t", "t", "p" >>, << "h", "t", "t", "p", "s" >> }

\* What follows "//": the host in lower case and the path, "/" when empty.
HostAndPath(rest, slash) ==
    IF slash = 0 THEN ToLower(rest) \o << "/" >>
    ELSE ToLower(SubStr(rest, 1, slash - 1)) \o SubStr(rest, slash, Len(rest))

\* The url of a scheme and what follows its colon: scheme://host/path with
\* the host in lower case and a path, or the scheme and an opaque rest.
UrlOf(scheme, rest) ==
    IF Len(rest) >= 2 /\ rest[1] = "/" /\ rest[2] = "/"
    THEN IF (Len(rest) = 2 \/ rest[3] = "/") /\ ToLower(scheme) \in SpecialSchemes
         THEN Err("EmptyHost")
         ELSE Ok([serialization |->
                    ToLower(scheme) \o << ":", "/", "/" >>
                        \o HostAndPath(SubStr(rest, 3, Len(rest)), Find(SubStr(rest, 3, Len(rest)), "/"))])
    ELSE IF ToLower(scheme) \in SpecialSchemes THEN Err("InvalidUrl")
    ELSE Ok([serialization |-> ToLower(scheme) \o << ":" >> \o rest])

\* The url of s, whose scheme ends at position colon.
UrlAt(s, colon) ==
    IF colon < 2 THEN Err("RelativeUrlWithoutBase")
    ELSE IF ~(IsLowerChar(s[1]) \/ IsUpperChar(s[1])) THEN Err("RelativeUrlWithoutBase")
    ELSE IF \E i \in 1..(colon - 1) : ~(IsLowerChar(s[i]) \/ IsUpperChar(s[i]) \/ s[i] \in Range(Digits))
         THEN Err("RelativeUrlWithoutBase")
    ELSE UrlOf(SubStr(s, 1, colon - 1), SubStr(s, colon + 1, Len(s)))

\* Url::parse: a text with a scheme is a url, in its normal form.
UrlParse(s) == UrlAt(s, Find(s, ":"))

\* Metadata::new
Metadata_new == [f \in Range(FIELDS) |-> None]

\* Metadata::name, display_name, about, website, picture, nip05, lud06 and
\* lud16: the record with the field set.
Metadata_set(self, field, value) == [self EXCEPT ![field] = Some(value)]

\* The positions of a set of them, in ascending order.
Ascending(positions) ==
    [k \in 1..Cardinality(positions) |->
        CHOOSE i \in positions : Cardinality({ j \in positions : j <= i }) = k]

\* The text of the value of a field: the serialization of a url.
TextOf(field, value) == IF field \in UrlFields THEN value.serialization ELSE value

\* "field":"value"
JsonMember(field, value) == JsonString(field) \o << ":" >> \o JsonString(TextOf(field, value))

JsonObject(members) == << "{" >> \o Joined(members) \o << "}" >>

\* The members of the fields at the positions given.
JsonMembers(self, positions) ==
    [k \in 1..Len(positions) |-> JsonMember(FIELDS[positions[k]], self[FIELDS[positions[k]]][1])]

\* Metadata::as_json: serde_json::to_string with
\* skip_serializing_if = "Option::is_none" on every field.
Metadata_as_json(self) ==
    Ok(JsonObject(JsonMembers(self, Ascending({ k \in 1..Len(FIELDS) : self[FIELDS[k]] # None }))))

\* serde_json reading an object whose values are strings or null, one
\* character at a time: mode is what the reader is in or expects, str the
\* string being read, key the key of the member being read.
JsonStart == [mode |-> "start", members |-> << >>, key |-> << >>, str |-> << >>]

\* The string being read ended: it is a key, or the value of a member.
StringEnded(st) ==
    IF st.mode = "in_key" THEN [st EXCEPT !.mode = "colon", !.key = st.str, !.str = << >>]
    ELSE [st EXCEPT !.mode = "after_value", !.str = << >>,
                    !.members = Append(st.members, [key |-> st.key, value |-> Some(st.str)])]

\* The reader in mode next when c is the character expected.
Expect(st, c, expected, next) == [st EXCEPT !.mode = IF c = expected THEN next ELSE "error"]

JsonStep(st, c) ==
    CASE st.mode = "start" -> Expect(st, c, "{", "first_key")
      [] st.mode = "first_key" ->
            [st EXCEPT !.mode = IF c = "\"" THEN "in_key" ELSE IF c = "}" THEN "done" ELSE "error"]
      [] st.mode = "next_key" -> Expect(st, c, "\"", "in_key")
      [] st.mode \in { "in_key", "in_value" } ->
            IF c = "\"" THEN StringEnded(st)
            ELSE IF c = "\\" THEN [st EXCEPT !.mode = IF st.mode = "in_key" THEN "escape_in_key"
                                                       ELSE "escape_in_value"]
            ELSE [st EXCEPT !.str = Append(st.str, c)]
      [] st.mode \in { "escape_in_key", "escape_in_value" } ->
            IF c \in { "\"", "\\", "/" }
            THEN [st EXCEPT !.mode = IF st.mode = "escape_in_key" THEN "in_key" ELSE "in_value",
                            !.str = Append(st.str, c)]
            ELSE [st EXCEPT !.mode = "error"]
      [] st.mode = "colon" -> Expect(st, c, ":", "value")
      [] st.mode = "value" ->
            [st EXCEPT !.mode = IF c = "\"" THEN "in_value" ELSE IF c = "n" THEN "null_u" ELSE "error"]
      [] st.mode = "null_u" -> Expect(st, c, "u", "null_l")
      [] st.mode = "null_l" -> Expect(st, c, "l", "null_end")
      [] st.mode = "null_end" ->
            IF c = "l"
            THEN [st EXCEPT !.mode = "after_value",
                            !.members = Append(st.members, [key |-> st.key, value |-> None])]
            ELSE [st EXCEPT !.mode = "error"]
      [] st.mode = "after_value" ->
            [st EXCEPT !.mode = IF c = "," THEN "next_key" ELSE IF c = "}" THEN "done" ELSE "error"]
      [] OTHER -> [st EXCEPT !.mode = "error"]

\* The reader st after the characters at positions lo..hi: the first half
\* of them, then the second.
RECURSIVE JsonRead(_, _, _, _)
JsonRead(st, s, lo, hi) ==
    IF lo > hi THEN st
    ELSE IF lo = hi THEN JsonStep(st, s[lo])
    ELSE Let(JsonRead(st, s, lo, (lo + hi) \div 2),
             LAMBDA half : JsonRead(half, s, ((lo + hi) \div 2) + 1, hi))

\* The value a member gives a field: a string, a url or none for null.
MemberValue(field, value) ==
    IF value = None THEN Ok(None)
    ELSE IF field \in UrlFields THEN Try(UrlParse(value[1]), "Json", LAMBDA url : Ok(Some(url)))
    ELSE Ok(value)

\* The value the members at the positions given, those of the field's key,
\* give the field: none when there is no such member, an error when there
\* are two.
FieldValue(members, field, positions) ==
    IF positions = {} THEN Ok(None)
    ELSE IF Cardinality(positions) > 1 THEN Err("Json")
    ELSE MemberValue(field, members[CHOOSE i \in positions : TRUE].value)

\* The value of each field, members of other keys being ignored.
FieldValues_(members) ==
    [f \in Range(FIELDS) |-> FieldValue(members, f, { i \in 1..Len(members) : members[i].key = f })]

\* The record of the values, an error when a field has none.
Deserialized(values) ==
    IF \E f \in Range(FIELDS) : ~values[f].ok THEN Err("Json")
    ELSE Ok([f \in Range(FIELDS) |-> values[f].val[1]])

\* The record of the members the reader read to the end of an object.
Finished(st) == IF st.mode # "done" THEN Err("Json") ELSE Deserialized(FieldValues_(st.members))

\* Metadata::from_json: serde_json::from_str
Metadata_from_json(json) == Finished(JsonRead(JsonStart, json, 1, Len(json)))

\* Values of the fields, and texts given as JSON.
StringValues == { << >>, << "a" >>, << "a", "\"", "\\", "b" >> }

UrlValues ==
    { UrlParse(t).val[1] :
        t \in { << "h", "t", "t", "p", ":", "/", "/", "A", ".", "b" >>,
                << "H", "T", "T", "P", "S", ":", "/", "/", "a", ".", "b", "/", "C" >> } }

ValuesOfField(field) == IF field \in UrlFields THEN UrlValues ELSE StringValues

\* {"name":"myname","about":"Description","display_name":""}
TestContent ==
    << "{" >> \o JsonString(FIELDS[1]) \o << ":" >> \o JsonString(<< "m", "y", "n", "a", "m", "e" >>)
        \o << "," >> \o JsonString(FIELDS[3]) \o << ":" >>
        \o JsonString(<< "D", "e", "s", "c", "r", "i", "p", "t", "i", "o", "n" >>)
        \o << "," >> \o JsonString(FIELDS[2]) \o << ":" >> \o JsonString(<< >>) \o << "}" >>

\* {"<key>":<value>}
OneMember(key, value) == << "{" >> \o JsonString(key) \o << ":" >> \o value \o << "}" >>

\* Objects of one member: each field with the empty string, with null, with
\* a text that is no url; a key that is no field; and texts that are no
\* object of members.
JsonTexts ==
    { TestContent, << "{", "}" >>, << >>, << "{" >>,
      OneMember(<< "x" >>, JsonString(<< "y" >>)),
      << "{" >> \o JsonString(FIELDS[1]) \o << ":" >> \o JsonString(<< "a" >>) \o << "," >>
          \o JsonString(FIELDS[1]) \o << ":" >> \o JsonString(<< "b" >>) \o << "}" >> }
        \cup { OneMember(FIELDS[k], JsonString(<< >>)) : k \in 1..Len(FIELDS) }
        \cup { OneMember(FIELDS[k], << "n", "u", "l", "l" >>) : k \in 1..Len(FIELDS) }
        \cup { OneMember(FIELDS[k], JsonString(<< "a", ".", "b" >>)) : k \in 1..Len(FIELDS) }
        \cup { OneMember(FIELDS[k], << "1" >>) : k \in 1..Len(FIELDS) }


(***************************************************************************)
(* The state: the Keys value in hand, the text and the result of the last  *)
(* operation, the draft and the event in hand.                             *)
(***************************************************************************)
VARIABLES
    keys,     \* Option<Keys>: the Keys value constructed, None before and after a failed construction
    text,     \* the text the last operation was given or returned, empty when it had none
    ret,      \* the last operation: its name, its result and what is known of its input
    builder,  \* Option<EventBuilder>: the draft
    event,    \* Option<Event>: the event in hand
    origin,   \* where the event in hand is from: the call that made it and what was changed since
    returned  \* the Keys value as its constructor returned it

vars == << keys, text, ret, builder, event, origin, returned >>

\* The origin of an event as op returned it.
Origin(op, difficulty) ==
    [op |-> op, difficulty |-> difficulty, changed |-> "none", recomputed |-> FALSE]

Ret(op, res, calls, input) ==
    [op |-> op, ok |-> res.ok, err |-> res.err, out |-> res.val, calls |-> calls, input |-> input]

Init ==
    /\ keys = None
    /\ text = << >>
    /\ ret = Ret("none", Err("none"), << >>, None)
    /\ builder = None
    /\ event = None
    /\ origin = Origin("none", 0)
    /\ returned = None

\* No Keys value has been asked for yet.
Fresh == ret.op = "none"

Built == keys # None

\* The text an export of the Keys in hand returned, with what is known of it.
Exported ==
    TextInput(text,
              IF ret.op \in { "to_bech32_secret_key", "to_bech32_public_key" } THEN "bech32" ELSE "hex",
              IF ret.op = "to_bech32_secret_key" THEN PREFIX_BECH32_SECRET_KEY
              ELSE IF ret.op = "to_bech32_public_key" THEN PREFIX_BECH32_PUBLIC_KEY
              ELSE << >>,
              IF ret.op \in { "to_bech32_secret_key", "to_bech32_public_key" } THEN "Bech32" ELSE "none",
              "exported",
              IF ret.op \in { "to_bech32_secret_key", "secret_key_as_str" }
              THEN keys[1].secret_key[1] ELSE keys[1].public_key)

\* The texts a constructor may be given: any text at the start, later the
\* text an export of the key of its type returned.
Submitted(exports) ==
    IF Fresh THEN TextInputs
    ELSE IF Built /\ ret.ok /\ ret.op \in exports THEN { Exported }
    ELSE {}

SecretExports == { "to_bech32_secret_key", "secret_key_as_str" }

PublicExports == { "to_bech32_public_key", "public_key_as_str" }

\* A constructor returned res: the Keys value on success, none on failure.
Construct(op, res, calls, s, input) ==
    /\ keys' = IF res.ok THEN Some(res.val[1]) ELSE None
    /\ text' = s
    /\ ret' = Ret(op, IF res.ok THEN Ok(<< >>) ELSE res, calls, input)
    /\ returned' = res.val
    /\ UNCHANGED << builder, event, origin >>

New ==
    /\ Fresh
    /\ \E sk \in ValidSecrets : Construct("new", Ok(new(sk)), << >>, << >>, None)

\* secp.generate_keypair draws a valid secret key at random.
GenerateFromOsRandom ==
    /\ Fresh
    /\ \E sk \in ValidSecrets : Construct("generate_from_os_random", Ok(new(sk)), << >>, << >>, None)

FromPublicKey ==
    /\ Fresh
    /\ \E pk \in ValidPublics : Construct("from_public_key", Ok(from_public_key(pk)), << >>, << >>, None)

\* A constructor from text returned r, a result with the parsers it ran.
ConstructCalled(op, r, in) == Construct(op, r.res, r.calls, in.s, Some(in))

FromSkStr ==
    \E in \in Submitted(SecretExports) : ConstructCalled("from_sk_str", from_sk_str(in.s), in)

FromPkStr ==
    \E in \in Submitted(PublicExports) : ConstructCalled("from_pk_str", from_pk_str(in.s), in)

FromBech32 ==
    \E in \in Submitted(SecretExports) : Construct("from_bech32", from_bech32(in.s), << >>, in.s, Some(in))

FromBech32PublicKey ==
    \E in \in Submitted(PublicExports) :
        Construct("from_bech32_public_key", from_bech32_public_key(in.s), << >>, in.s, Some(in))

FromMnemonic ==
    /\ Fresh
    /\ \E m \in Mnemonics, p \in Passphrases :
        Construct("from_mnemonic", from_mnemonic(m, p), << >>, << >>, None)

\* The keyed hash returned some 64 bytes.
GenerateMnemonic ==
    /\ Fresh
    /\ \E word_count \in WordCounts, entropy \in HmacOutputs :
        ret' = Ret("generate_mnemonic", generate_mnemonic(word_count, entropy), << >>,
                   Some([word_count |-> word_count, entropy |-> entropy]))
    /\ text' = << >>
    /\ UNCHANGED << keys, builder, event, origin, returned >>

\* The Metadata in hand: the one new, a setter or from_json returned.
MetadataInHand ==
    /\ ret.op \in { "Metadata::new", "Metadata::set", "Metadata::from_json" }
    /\ ret.ok

MetadataNew ==
    /\ Fresh
    /\ ret' = Ret("Metadata::new", Ok(Metadata_new), << >>, None)
    /\ text' = << >>
    /\ UNCHANGED << keys, builder, event, origin, returned >>

\* One of the setters, on the Metadata new or a setter returned.
MetadataSet ==
    /\ ret.op \in { "Metadata::new", "Metadata::set" }
    /\ Cardinality({ f \in Range(FIELDS) : ret.out[1][f] # None }) < MaxFields
    /\ \E field \in Range(FIELDS) :
        \E value \in ValuesOfField(field) :
            ret' = Ret("Metadata::set", Ok(Metadata_set(ret.out[1], field, value)), << >>,
                       Some([field |-> field, value |-> value]))
    /\ text' = << >>
    /\ UNCHANGED << keys, builder, event, origin, returned >>

\* as_json of the Metadata in hand: the text is kept.
MetadataAsJson ==
    /\ MetadataInHand
    /\ ret' = Ret("Metadata::as_json", Metadata_as_json(ret.out[1]), << >>,
                  Some([metadata |-> ret.out[1]]))
    /\ text' = Metadata_as_json(ret.out[1]).val[1]
    /\ UNCHANGED << keys, builder, event, origin, returned >>

\* from_json of the text as_json returned, or of a text given.
MetadataFromJson ==
    /\ \/ /\ ret.op = "Metadata::as_json"
          /\ ret' = Ret("Metadata::from_json", Metadata_from_json(text), << >>,
                        Some([json |-> text, of |-> Some(ret.input[1].metadata)]))
       \/ /\ Fresh
          /\ \E json \in JsonTexts :
                ret' = Ret("Metadata::from_json", Metadata_from_json(json), << >>,
                           Some([json |-> json, of |-> None]))
    /\ text' = << >>
    /\ UNCHANGED << keys, builder, event, origin, returned >>

\* An operation on the Keys in hand (&self): the value stays as it is.
\* The Keys are handled before the draft is made.
Use(op, res, s) ==
    /\ Built
    /\ builder = None
    /\ keys' = keys
    /\ text' = s
    /\ ret' = Ret(op, res, << >>, None)
    /\ UNCHANGED << builder, event, origin, returned >>

PublicKey == Built /\ Use("public_key", Ok(public_key(keys[1])), << >>)

SecretKey == Built /\ Use("secret_key", secret_key(keys[1]), << >>)

KeyPair == Built /\ Use("key_pair", key_pair(keys[1]), << >>)

\* An operation on the Keys in hand that returns a text.
UseText(op, res) == Use(op, res, IF res.ok THEN res.val[1] ELSE << >>)

SecretKeyAsStr == Built /\ UseText("secret_key_as_str", secret_key_as_str(keys[1]))

PublicKeyAsStr == Built /\ UseText("public_key_as_str", Ok(public_key_as_str(keys[1])))

\* keys.secret_key()?.to_bech32()
ToBech32SecretKey ==
    /\ Built
    /\ UseText("to_bech32_secret_key",
               AndThen(secret_key(keys[1]), LAMBDA sk : to_bech32_secret_key(sk)))

\* keys.public_key().to_bech32()
ToBech32PublicKey ==
    Built /\ UseText("to_bech32_public_key", to_bech32_public_key(public_key(keys[1])))

NewBuilder ==
    /\ Built
    /\ builder = None
    /\ \E note \in Notes, tags \in TagLists :
        builder' = Some(EventBuilder_new(note.kind, note.content, tags))
    /\ text' = << >>
    /\ ret' = Ret("EventBuilder::new", Ok(<< >>), << >>, None)
    /\ UNCHANGED << keys, event, origin, returned >>

\* A call that makes an event returned res: the event on success.
Produced(op, res, difficulty) ==
    /\ event' = IF res.ok THEN Some(res.val[1]) ELSE event
    /\ origin' = IF res.ok THEN Origin(op, difficulty) ELSE origin
    /\ ret' = Ret(op, IF res.ok THEN Ok(<< >>) ELSE res, << >>, None)
    /\ text' = << >>
    /\ UNCHANGED << keys, builder, returned >>

\* The draft is signed at some reading of the clock.  One event is made of
\* a draft.
ToEvent ==
    /\ Built
    /\ builder # None
    /\ event = None
    /\ \E t \in Times : Produced("to_event", to_event(builder[1], keys[1], t), 0)

\* The call returned, opt holds what.
ProducedAtLast(op, opt, difficulty) == opt # None /\ Produced(op, opt[1], difficulty)

ToPowEvent ==
    /\ Built
    /\ builder # None
    /\ event = None
    /\ \E t \in Times, difficulty \in Difficulties :
        ProducedAtLast("to_pow_event", to_pow_event(builder[1], keys[1], t, difficulty), difficulty)

Fields == { "content", "tags", "created_at", "kind" }

\* Other values of a field of an event.
FieldValues(field) ==
    CASE field = "content" -> Contents
      [] field = "tags" -> TagLists
      [] field = "created_at" -> Times
      [] field = "kind" -> Kinds

\* The event with its id computed again from its fields.
Recomputed(e) == [e EXCEPT !.id = gen_id(e.pubkey, e.created_at, e.kind, e.tags, e.content)]

\* Event::from_json of an event as it comes back from a relay: the event
\* the builder made with one field changed, its id computed again or not,
\* its signature kept.
FromJson ==
    /\ event # None
    /\ origin.changed = "none"
    /\ \E field \in Fields, recomputed \in BOOLEAN :
        \E v \in FieldValues(field) \ { event[1][field] } :
            /\ event' = Some(IF recomputed THEN Recomputed([event[1] EXCEPT ![field] = v])
                             ELSE [event[1] EXCEPT ![field] = v])
            /\ origin' = [origin EXCEPT !.changed = field, !.recomputed = recomputed]
    /\ text' = << >>
    /\ ret' = Ret("from_json", Ok(<< >>), << >>, None)
    /\ UNCHANGED << keys, builder, returned >>

Verify ==
    /\ event # None
    /\ text' = << >>
    /\ ret' = Ret("verify", Ok(verify(event[1])), << >>, None)
    /\ UNCHANGED << keys, builder, event, origin, returned >>

Next ==
    \/ New
    \/ GenerateFromOsRandom
    \/ FromPublicKey
    \/ FromSkStr
    \/ FromPkStr
    \/ FromBech32
    \/ FromBech32PublicKey
    \/ FromMnemonic
    \/ GenerateMnemonic
    \/ MetadataNew
    \/ MetadataSet
    \/ MetadataAsJson
    \/ MetadataFromJson
    \/ PublicKey
    \/ SecretKey
    \/ KeyPair
    \/ SecretKeyAsStr
    \/ PublicKeyAsStr
    \/ ToBech32SecretKey
    \/ ToBech32PublicKey
    \/ NewBuilder
    \/ ToEvent
    \/ ToPowEvent
    \/ FromJson
    \/ Verify

Spec == Init /\ [][Next]_vars

(***************************************************************************)
(* Properties.                                                             *)
(***************************************************************************)
\* The Keys in hand hold a secret, hold none.
WithSecret == Built /\ keys[1].secret_key # None

Keyless == Built /\ keys[1].secret_key = None

\* The event in hand is as op returned it.
EventFrom(op) == event # None /\ origin.op = op /\ origin.changed = "none"

\* The id of the event's own fields.
IdOfFields(e) == gen_id(e.pubkey, e.created_at, e.kind, e.tags, e.content)

\* C1: for Keys that hold a secret to_event succeeds, and the event it
\* returns has the public key of the Keys and the draft's fields, has as id
\* the hash of the canonical form of its fields, carries a signature that
\* verifies against that id and the public key, and verify returns true
\* for it.
ToEventVerifies ==
    /\ (ret.op = "to_event" /\ WithSecret) => (ret.ok /\ EventFrom("to_event"))
    /\ EventFrom("to_event") =>
          /\ event[1].pubkey = public_key(keys[1])
          /\ event[1].kind = builder[1].kind
          /\ event[1].tags = builder[1].tags
          /\ event[1].content = builder[1].content
          /\ event[1].created_at \in Times
          /\ event[1].id = Sha256(Canonical(public_key(keys[1]), event[1].created_at, builder[1].kind,
                                            builder[1].tags, builder[1].content))
          /\ verify_schnorr(event[1].sig, event[1].id, public_key(keys[1]))
          /\ ret.op = "verify" => (ret.ok /\ ret.out = << TRUE >>)

\* verify returned true for an event to_event made.
ToEventVerified == EventFrom("to_event") /\ ret.op = "verify" /\ ret.out = << TRUE >>

\* C2: after one of content, tags, created_at and kind of a signed event is
\* changed to another value, with the id computed again from the changed
\* fields or left as it was and the signature kept, verify returns false;
\* verify returns a boolean, false whenever the id is not the hash of the
\* event's fields.
ChangedEventFailsVerify ==
    ret.op = "verify" =>
        /\ ret.ok
        /\ ret.out \in { << TRUE >>, << FALSE >> }
        /\ origin.changed # "none" => ret.out = << FALSE >>
        /\ event[1].id # IdOfFields(event[1]) => ret.out = << FALSE >>

\* verify returned for an event whose tags were changed and whose id was
\* computed again.
ChangedTagsVerified ==
    /\ ret.op = "verify"
    /\ origin.changed = "tags"
    /\ origin.recomputed
    /\ event[1].id = IdOfFields(event[1])

\* C3: Keys without a secret (as from_public_key, from_pk_str and
\* from_bech32_public_key return them) give out no secret and no signature:
\* secret_key and secret_key_as_str fail with SkMissing, key_pair fails with
\* KeyPairMissing, to_event and to_pow_event fail with the missing-secret
\* error, and no event is made.
KeylessYieldsNoSecret ==
    /\ (ret.op \in { "from_public_key", "from_pk_str", "from_bech32_public_key" } /\ ret.ok) => Keyless
    /\ Keyless =>
          /\ ret.op \in { "secret_key", "secret_key_as_str", "to_bech32_secret_key" } =>
                (~ret.ok /\ ret.err = "SkMissing" /\ ret.out = None)
          /\ ret.op = "key_pair" => (~ret.ok /\ ret.err = "KeyPairMissing" /\ ret.out = None)
          /\ ret.op \in { "to_event", "to_pow_event" } =>
                (~ret.ok /\ ret.err = "Generic" /\ ret.out = << "SkMissing" >>)
          /\ event = None

\* to_pow_event was called with Keys that hold no secret.
KeylessAskedToMine == Keyless /\ ret.op = "to_pow_event"

\* C4: every Keys value any constructor returns (new,
\* generate_from_os_random, from_public_key, from_sk_str, from_pk_str,
\* from_bech32, from_bech32_public_key, from_mnemonic) holds a secret key
\* exactly when it holds a key pair, and then the key pair and the public
\* key are the ones derived from the secret key; and whatever was done
\* with them since, the Keys are the value their constructor returned.
KeysInvariant ==
    Built =>
        /\ (keys[1].secret_key # None) <=> (keys[1].key_pair # None)
        /\ keys[1].secret_key # None =>
              /\ keys[1].key_pair[1] = KeyPairFromSecretKey(keys[1].secret_key[1])
              /\ keys[1].public_key
                   = XOnlyPublicKeyFromKeypair(KeyPairFromSecretKey(keys[1].secret_key[1]))
        /\ keys = returned

\* from_bech32 put Keys together from the text that to_bech32 returned
\* for the secret key of the Keys held before.
Bech32KeysRebuilt ==
    /\ WithSecret
    /\ ret.op = "from_bech32"
    /\ ret.input[1].damage = "exported"

\* The text the last constructor was given is the bech32 text of a valid
\* key of the prefix hrp, as to_bech32 or the encoder wrote it.
GivenBech32Of(hrp) ==
    /\ ret.input # None
    /\ ret.input[1].form = "bech32"
    /\ ret.input[1].hrp = hrp
    /\ ret.input[1].variant = "Bech32"
    /\ ret.input[1].damage \in { "none", "exported" }
    /\ Len(ret.input[1].src) = KeyLen

\* The round trips from bytes to text and back.
Bech32ThereAndBack ==
    /\ (ret.op = "from_bech32" /\ GivenBech32Of(PREFIX_BECH32_SECRET_KEY)
            /\ SecretKeyFromSlice(ret.input[1].src).ok) =>
          /\ ret.ok
          /\ secret_key(keys[1]) = Ok(ret.input[1].src)
          /\ secret_key_as_str(keys[1]) = Ok(ToHex(ret.input[1].src))
    /\ (ret.op = "from_bech32_public_key" /\ GivenBech32Of(PREFIX_BECH32_PUBLIC_KEY)
            /\ XOnlyPublicKeyFromSlice(ret.input[1].src).ok) =>
          (ret.ok /\ public_key(keys[1]) = ret.input[1].src)

\* C5 as stated: the round trips, and the text from_bech32 or
\* from_bech32_public_key accepted is exactly the text to_bech32 returns
\* for the key decoded.
Bech32RoundTripExact ==
    /\ Bech32ThereAndBack
    /\ (ret.op = "from_bech32" /\ ret.ok) =>
          to_bech32_secret_key(keys[1].secret_key[1]) = Ok(text)
    /\ (ret.op = "from_bech32_public_key" /\ ret.ok) =>
          to_bech32_public_key(keys[1].public_key) = Ok(text)

\* C5 amended: the round trips, and the text from_bech32 or
\* from_bech32_public_key accepted, put in lower case, is the text
\* to_bech32 returns for the key decoded (the text itself when it has no
\* upper-case letter).
Bech32RoundTrip ==
    /\ Bech32ThereAndBack
    /\ (ret.op = "from_bech32" /\ ret.ok) =>
          /\ to_bech32_secret_key(keys[1].secret_key[1]) = Ok(ToLower(text))
          /\ text \in { ToLower(text), ToUpper(text) }
    /\ (ret.op = "from_bech32_public_key" /\ ret.ok) =>
          /\ to_bech32_public_key(keys[1].public_key) = Ok(ToLower(text))
          /\ text \in { ToLower(text), ToUpper(text) }

\* from_bech32 accepted a text in upper case, and one that to_bech32 wrote.
UpperCaseAccepted ==
    ret.op = "from_bech32" /\ ret.ok /\ text # ToLower(text)

\* C6: from_bech32 and from_bech32_public_key return an error and no Keys
\* for a bech32 text with another prefix than the key type's, with a
\* checksum character altered, in mixed case, or with a Bech32m checksum.
Bech32Rejects ==
    (ret.op \in { "from_bech32", "from_bech32_public_key" } /\ ret.input # None
        /\ ret.input[1].form = "bech32"
        /\ \/ ret.input[1].hrp # (IF ret.op = "from_bech32" THEN PREFIX_BECH32_SECRET_KEY
                                  ELSE PREFIX_BECH32_PUBLIC_KEY)
           \/ ret.input[1].damage \in { "altered_checksum", "mixed_case" }
           \/ ret.input[1].variant = "Bech32m")
    => (~ret.ok /\ keys = None
        /\ ret.err = (IF ret.op = "from_bech32" THEN "Bech32SkParseError" ELSE "Bech32PkParseError"))

\* from_bech32 was given the bytes of a valid secret key under the right
\* prefix with a Bech32m checksum.
Bech32mGiven ==
    /\ ret.op = "from_bech32"
    /\ ret.input # None
    /\ ret.input[1].hrp = PREFIX_BECH32_SECRET_KEY
    /\ ret.input[1].variant = "Bech32m"
    /\ SecretKeyFromSlice(ret.input[1].src).ok

\* C7: from_sk_str fails with InvalidSecretKey and from_pk_str fails with
\* InvalidPublicKey when the text is no key of the type in either format.
ImportErrorNamesKeyType ==
    /\ (ret.op = "from_sk_str" /\ ~ret.ok) => ret.err = "InvalidSecretKey"
    /\ (ret.op = "from_pk_str" /\ ~ret.ok) => ret.err = "InvalidPublicKey"

\* The text the last constructor was given is the hexadecimal text of KeyLen bytes.
GivenHex ==
    /\ ret.input # None
    /\ ret.input[1].form = "hex"
    /\ ret.input[1].damage \in { "none", "exported" }
    /\ Len(ret.input[1].src) = KeyLen

\* C8: from_sk_str returns Keys::new(b) for the hexadecimal and for the
\* bech32 text of a valid secret key b, from_pk_str returns
\* Keys::from_public_key(p) for both texts of a valid public key p; the
\* text is parsed as hexadecimal first and as bech32 only when that failed.
BothFormatsSameKey ==
    /\ (ret.op = "from_sk_str" /\ SecretKeyFromSlice(ret.input[1].src).ok
            /\ (GivenHex \/ GivenBech32Of(PREFIX_BECH32_SECRET_KEY))) =>
          (ret.ok /\ keys = Some(new(ret.input[1].src)))
    /\ (ret.op = "from_pk_str" /\ XOnlyPublicKeyFromSlice(ret.input[1].src).ok
            /\ (GivenHex \/ GivenBech32Of(PREFIX_BECH32_PUBLIC_KEY))) =>
          (ret.ok /\ keys = Some(from_public_key(ret.input[1].src)))
    /\ ret.op = "from_sk_str" =>
          /\ ret.calls \in { << "from_str" >>, << "from_str", "from_bech32" >> }
          /\ Len(ret.calls) = 2 <=> ~SecretKeyFromStr(text).ok
    /\ ret.op = "from_pk_str" =>
          /\ ret.calls \in { << "from_str" >>, << "from_str", "from_bech32_public_key" >> }
          /\ Len(ret.calls) = 2 <=> ~XOnlyPublicKeyFromStr(text).ok

\* from_pk_str took a bech32 text after it failed to parse as hexadecimal.
Bech32PkImported == ret.op = "from_pk_str" /\ ret.ok /\ Len(ret.calls) = 2

\* The nonce tags among the tags.
NonceTags(tags) == { i \in 1..Len(tags) : Len(tags[i]) > 0 /\ tags[i][1] = NONCE }

\* What holds of every event to_pow_event returns: the leading zero bits
\* of the id, the verification, the first attempt at difficulty 0.
MinedAsAsked ==
    EventFrom("to_pow_event") =>
        /\ get_leading_zero_bits(event[1].id) >= origin.difficulty
        /\ verify(event[1])
        /\ Len(event[1].tags) > 0
        /\ event[1].tags[Len(event[1].tags)][1] = NONCE
        /\ event[1].tags[Len(event[1].tags)][3] = Decimal(origin.difficulty)
        /\ \E n \in 1..MaxAttempts : event[1].tags[Len(event[1].tags)][2] = Decimal(n)
        /\ origin.difficulty = 0 => event[1].tags[Len(event[1].tags)][2] = Decimal(1)

\* C9 as stated: every event to_pow_event returns has an id with at least
\* difficulty leading zero bits, exactly one nonce tag among its tags, and
\* verifies; at difficulty 0 the first attempt succeeds.
MinedEventHasOneNonceTag ==
    /\ MinedAsAsked
    /\ EventFrom("to_pow_event") => Cardinality(NonceTags(event[1].tags)) = 1

\* C9 amended: every event to_pow_event returns has an id with at least
\* difficulty leading zero bits, has the draft's tags followed by exactly
\* one nonce tag ["nonce", attempt counter, difficulty] (one more nonce tag
\* than the draft has, however many attempts were made), and verifies; at
\* difficulty 0 the first attempt succeeds.
MinedEventAddsOneNonceTag ==
    /\ MinedAsAsked
    /\ EventFrom("to_pow_event") =>
          /\ SubStr(event[1].tags, 1, Len(event[1].tags) - 1) = builder[1].tags
          /\ Cardinality(NonceTags(event[1].tags)) = Cardinality(NonceTags(builder[1].tags)) + 1

\* to_pow_event returned an event that took more than one attempt.
MinedInSeveralAttempts ==
    /\ EventFrom("to_pow_event")
    /\ origin.difficulty > 0
    /\ event[1].tags[Len(event[1].tags)][2] # Decimal(1)

\* generate_mnemonic was asked for a standard number of words.
StandardCountAsked ==
    /\ ret.op = "generate_mnemonic"
    /\ ret.input[1].word_count \in { 12, 15, 18, 21, 24 }

\* The bytes a phrase encodes: its bits without the checksum at the end.
EntropyOf(words) == [k \in 1..((Len(words) * 4) \div 3) |-> BitsValue(words, 11, 8 * (k - 1) + 1, 8)]

\* C11: for each of the word counts 12, 15, 18, 21 and 24 generate_mnemonic
\* returns a phrase of exactly that many words, valid by its checksum, that
\* encodes the first word_count * 4 / 3 bytes (16, 20, 24, 28 and 32) of
\* the 64 bytes of the keyed hash.
GeneratedOfWordCount ==
    StandardCountAsked =>
        /\ ret.ok
        /\ Len(ret.out[1]) = ret.input[1].word_count
        /\ MnemonicFromStr(ret.out[1]).ok
        /\ EntropyOf(ret.out[1]) = SubStr(ret.input[1].entropy, 1, (ret.input[1].word_count * 4) \div 3)
        /\ Len(EntropyOf(ret.out[1])) \in { 16, 20, 24, 28, 32 }
        /\ Len(EntropyOf(ret.out[1])) = 16 + 4 * ((ret.input[1].word_count - 12) \div 3)

\* generate_mnemonic returned a phrase of 24 words.
Generated24Words ==
    /\ StandardCountAsked
    /\ ret.input[1].word_count = 24
    /\ ret.ok
    /\ Len(ret.out[1]) = 24

\* C13: from_bech32 fails with Bech32SkParseError only and
\* from_bech32_public_key with Bech32PkParseError only, whichever step of
\* the decoding fails.
Bech32FailsWithErrorOfKeyType ==
    /\ (ret.op = "from_bech32" /\ ~ret.ok) => ret.err = "Bech32SkParseError"
    /\ (ret.op = "from_bech32_public_key" /\ ~ret.ok) => ret.err = "Bech32PkParseError"

\* C14: for every word count generate_mnemonic returns, a phrase or an
\* error of its error type, and never aborts.
GenerateMnemonicReturns ==
    ret.op = "generate_mnemonic" => (ret.ok \/ ret.err \in { "BIP39", "BIP32" })

\* s holds part at some position.
Holds(s, part) ==
    \E i \in 1..(Len(s) - Len(part) + 1) : SubStr(s, i, i + Len(part) - 1) = part

\* The text holds a member of the key of a field.
HoldsMember(json, field) == Holds(json, JsonString(field) \o << ":" >>)

\* A text given that is an object of one member, a field with the empty
\* string.
EmptyStringGiven(field) ==
    /\ ret.op = "Metadata::from_json"
    /\ ret.input[1].json = OneMember(field, JsonString(<< >>))

\* C12: as_json(m) emits exactly the fields of m that are present and omits
\* every absent one; from_json(as_json(m)) = m for every Metadata m;
\* from_json maps each field missing from the object to absent, and a field
\* present with the empty string stays present, it is not turned into
\* absent.
MetadataJsonRoundTrip ==
    /\ ret.op = "Metadata::as_json" =>
        /\ ret.ok
        /\ \A f \in Range(FIELDS) : HoldsMember(text, f) <=> ret.input[1].metadata[f] # None
    /\ (ret.op = "Metadata::from_json" /\ ret.input[1].of # None) =>
        /\ ret.ok
        /\ ret.out[1] = ret.input[1].of[1]
    /\ (ret.op = "Metadata::from_json" /\ ret.ok) =>
        \A f \in Range(FIELDS) : ~HoldsMember(ret.input[1].json, f) => ret.out[1][f] = None
    /\ \A f \in Range(FIELDS) :
        EmptyStringGiven(f) => (ret.ok /\ ret.out[1][f] # None /\ TextOf(f, ret.out[1][f][1]) = << >>)

====
